---- MODULE Spec2Model ----
(***************************************************************************)
(* Displacement dashboard: the record loader, the filter engine and the    *)
(* KPI engine, modelled from src/utils/data_processing.py,                 *)
(* src/components/filters.py and src/app.py.                               *)
(*                                                                         *)
(* A DataFrame is [columns, rows]: the set of its column names and the     *)
(* sequence of its rows; a row is a record of cells plus its pandas index  *)
(* label.  A timestamp is the integer yymmddhh, a calendar date the        *)
(* integer yymmdd, a month period the integer yymm.                        *)
(***************************************************************************)
EXTENDS Integers, Sequences, FiniteSets, TLC

\* ---------------------------------------------------------------- bounds
\* Largest number of rows of a source table.
MaxRecords == 3
\* Largest number of keys of a caller-built selection that constrain.
MaxActive == 2
\* Largest number of sidebar widgets moved off their default in one run.
MaxChanged == 1

\* ------------------------------------------------------------ input sets
\* The missing value of pandas (float nan); it equals nothing, itself included.
NaN == "NaN"

\* Rows a source table is drawn from (the CSV text of each cell).
SampleRows ==
  { [region |-> "North", district |-> "Alpha", displacement_status |-> "IDP",
     solutions_pathway |-> "Return", pathway_stage |-> "Assessment",
     household_size |-> 1, gender_hoh |-> "Male", shelter_status |-> "Emergency",
     documentation_status |-> "None", livelihood_support |-> "No",
     registration_date |-> [kind |-> "str", ts |-> 24013100]],
    [region |-> "North", district |-> "Beta", displacement_status |-> "Returnee",
     solutions_pathway |-> "Local Integration", pathway_stage |-> "Achieved",
     household_size |-> 2, gender_hoh |-> "Female", shelter_status |-> "Transitional",
     documentation_status |-> "Complete", livelihood_support |-> "Yes",
     registration_date |-> [kind |-> "str", ts |-> 24013112]],
    [region |-> "South", district |-> "Gamma", displacement_status |-> "Host Community",
     solutions_pathway |-> "Relocation", pathway_stage |-> "Planning",
     household_size |-> 3, gender_hoh |-> "Female", shelter_status |-> "Permanent",
     documentation_status |-> "Partial", livelihood_support |-> "No",
     registration_date |-> [kind |-> "str", ts |-> 24020100]],
    [region |-> "South", district |-> "Gamma", displacement_status |-> "IDP",
     solutions_pathway |-> "Return", pathway_stage |-> "Achieved",
     household_size |-> 2, gender_hoh |-> "Male", shelter_status |-> "Emergency",
     documentation_status |-> "Complete", livelihood_support |-> "Yes",
     registration_date |-> [kind |-> "str", ts |-> 24020112]],
    [region |-> "North", district |-> "Alpha", displacement_status |-> "Refugee",
     solutions_pathway |-> "Local Integration", pathway_stage |-> "Implementation",
     household_size |-> 1, gender_hoh |-> "Female", shelter_status |-> "Transitional",
     documentation_status |-> "Partial", livelihood_support |-> "Yes",
     registration_date |-> [kind |-> "str", ts |-> 24020100]] }

\* Calendar dates a date bound of a selection is drawn from.
SampleDates == {240131, 240201}

\* Household sizes a bound of household_size_range is drawn from.
SampleSizes == {1, 2, 3}

\* The values a caller-built selection may ask of each categorical field.
SampleValues ==
  [region |-> {"North", "South"}, district |-> {"Alpha", "Gamma"},
   solutions_pathway |-> {"Return", "Relocation"},
   pathway_stage |-> {"Achieved", "Planning"},
   displacement_status |-> {"IDP", "Returnee"},
   gender_hoh |-> {"Female", "Male"},
   shelter_status |-> {"Emergency", "Permanent"},
   livelihood_support |-> {"Yes", "No"},
   documentation_status |-> {"Complete", "None"}]

\* ---------------------------------------------------------------- schema
SchemaColumns ==
  {"beneficiary_id", "region", "district", "displacement_status",
   "solutions_pathway", "pathway_stage", "household_size", "gender_hoh",
   "shelter_status", "documentation_status", "livelihood_support",
   "registration_date"}

DerivedColumns ==
  {"registration_month", "registration_year", "registration_quarter",
   "total_individuals", "is_female_hoh", "has_livelihood_support",
   "is_achieved", "has_documentation"}

\* Columns read_csv infers as text.
TextColumns == SchemaColumns \ {"beneficiary_id", "household_size", "registration_date"}

\* Cell texts read_csv reads as missing.
NaStrings == {"", "NA", "NaN", "None", "null"}

categorical_filters ==
  <<"region", "district", "solutions_pathway", "pathway_stage",
    "displacement_status", "gender_hoh", "shelter_status",
    "livelihood_support", "documentation_status">>

EmptyDict == [k \in {} |-> 0]

Range(s) == {s[i] : i \in 1..Len(s)}

MinOf(S) == CHOOSE x \in S : \A y \in S : x <= y

MaxOf(S) == CHOOSE x \in S : \A y \in S : x >= y

SeqsUpTo(S, n) == UNION {[1..k -> S] : k \in 0..n}

\* The source tables: every sequence of at most MaxRecords sample rows, each
\* row given a beneficiary_id of its own.
Sources ==
  { [columns |-> SchemaColumns,
     rows |-> [i \in 1..Len(s) |-> s[i] @@ ("beneficiary_id" :> i)]]
    : s \in SeqsUpTo(SampleRows, MaxRecords) }

\* ------------------------------------------------------- pandas helpers
\* Elementwise == of a cell with a scalar: a missing cell equals nothing.
eq(x, v) == x # NaN /\ x = v

to_datetime(cell) == [kind |-> "datetime64", ts |-> cell.ts]

dt_date(cell) == cell.ts \div 100

to_period_M(cell) == cell.ts \div 10000

dt_year(cell) == cell.ts \div 1000000

to_period_Q(cell) ==
  dt_year(cell) * 10 + ((((cell.ts \div 10000) % 100) - 1) \div 3) + 1

\* df[df[col] == v]: the rows whose cell equals v, index labels and order kept.
where_eq(frame, col, v) ==
  [columns |-> frame.columns,
   rows |-> SelectSeq(frame.rows, LAMBDA r : eq(r[col], v))]

\* The row with its cell of the column set; the cell is added when it is new.
with_cell(r, col, v) == [c \in (DOMAIN r) \cup {col} |-> IF c = col THEN v ELSE r[c]]

\* df['registration_date'] = pd.to_datetime(df['registration_date'])
assign_to_datetime(frame) ==
  [columns |-> frame.columns \cup {"registration_date"},
   rows |-> [i \in 1..Len(frame.rows) |->
               with_cell(frame.rows[i], "registration_date",
                         to_datetime(frame.rows[i].registration_date))]]

\* Variant: the period is the day, not the month.
assign_month_as_day(frame) ==
  [columns |-> frame.columns \cup {"month"},
   rows |-> [i \in 1..Len(frame.rows) |->
               with_cell(frame.rows[i], "month", dt_date(frame.rows[i].registration_date))]]

\* df['month'] = df[date_col].dt.to_period('M')
assign_month(frame) ==
  [columns |-> frame.columns \cup {"month"},
   rows |-> [i \in 1..Len(frame.rows) |->
               with_cell(frame.rows[i], "month",
                         to_period_M(frame.rows[i].registration_date))]]

\* df.copy(): a new frame with the same content.
copy(frame) == frame

read_csv(table) ==
  [columns |-> table.columns,
   rows |-> [i \in 1..Len(table.rows) |->
               [c \in (DOMAIN table.rows[i]) \cup {"index"} |->
                  IF c = "index" THEN i - 1
                  ELSE IF c \in TextColumns /\ table.rows[i][c] \in NaStrings THEN NaN
                  ELSE table.rows[i][c]]]]

\* ------------------------------------------------------------ the loader
\* The columns the loader reads by name: df[c] raises KeyError when the
\* table has no column c.
LoaderReads ==
  {"registration_date", "household_size", "gender_hoh", "livelihood_support",
   "pathway_stage", "documentation_status"}

\* The exception load_and_process_data ends with, "none" when it returns.
load_and_process_data_raises(table) ==
  IF LoaderReads \subseteq table.columns THEN "none" ELSE "KeyError"

\* Variant: is_achieved tests the stage before the last.
load_and_process_data_stage_flag(table) ==
  LET df0 == read_csv(table)
      derived(r0) ==
        LET r1 == with_cell(r0, "registration_date", to_datetime(r0.registration_date))
        IN [c \in (DOMAIN r1) \cup DerivedColumns |->
              CASE c = "registration_month" -> to_period_M(r1.registration_date)
                [] c = "registration_year" -> dt_year(r1.registration_date)
                [] c = "registration_quarter" -> to_period_Q(r1.registration_date)
                [] c = "total_individuals" -> r1.household_size
                [] c = "is_female_hoh" -> eq(r1.gender_hoh, "Female")
                [] c = "has_livelihood_support" -> eq(r1.livelihood_support, "Yes")
                [] c = "is_achieved" -> eq(r1.pathway_stage, "Implementation")
                [] c = "has_documentation" -> eq(r1.documentation_status, "Complete")
                [] OTHER -> r1[c]]
  IN [columns |-> df0.columns \cup DerivedColumns,
      rows |-> [i \in 1..Len(df0.rows) |-> derived(df0.rows[i])]]

load_and_process_data(table) ==
  LET df0 == read_csv(table)
      derived(r0) ==
        LET r1 == with_cell(r0, "registration_date", to_datetime(r0.registration_date))
        IN [c \in (DOMAIN r1) \cup DerivedColumns |->
              CASE c = "registration_month" -> to_period_M(r1.registration_date)
                [] c = "registration_year" -> dt_year(r1.registration_date)
                [] c = "registration_quarter" -> to_period_Q(r1.registration_date)
                [] c = "total_individuals" -> r1.household_size
                [] c = "is_female_hoh" -> eq(r1.gender_hoh, "Female")
                [] c = "has_livelihood_support" -> eq(r1.livelihood_support, "Yes")
                [] c = "is_achieved" -> eq(r1.pathway_stage, "Achieved")
                [] c = "has_documentation" -> eq(r1.documentation_status, "Complete")
                [] OTHER -> r1[c]]
  IN [columns |-> df0.columns \cup DerivedColumns,
      rows |-> [i \in 1..Len(df0.rows) |-> derived(df0.rows[i])]]

\* ------------------------------------------------------ the filter engine
RECURSIVE apply_categorical_no_sentinel(_, _, _)
\* Variant: 'All' is compared like any other value.
apply_categorical_no_sentinel(frame, sel, i) ==
  IF i > Len(categorical_filters) THEN frame
  ELSE LET col == categorical_filters[i]
       IN IF col \in DOMAIN sel
          THEN apply_categorical_no_sentinel(
                 where_eq(frame, col, sel[col]), sel, i + 1)
          ELSE apply_categorical_no_sentinel(frame, sel, i + 1)

RECURSIVE apply_categorical_first_only(_, _, _)
\* Variant: the loop ends after the first filter it applies.
apply_categorical_first_only(frame, sel, i) ==
  IF i > Len(categorical_filters) THEN frame
  ELSE LET col == categorical_filters[i]
       IN IF col \in DOMAIN sel /\ sel[col] # "All"
          THEN where_eq(frame, col, sel[col])
          ELSE apply_categorical_first_only(frame, sel, i + 1)

RECURSIVE apply_categorical_not_equal(_, _, _)
\* Variant: the mask keeps the rows that differ from the value.
apply_categorical_not_equal(frame, sel, i) ==
  IF i > Len(categorical_filters) THEN frame
  ELSE LET col == categorical_filters[i]
       IN IF col \in DOMAIN sel /\ sel[col] # "All"
          THEN apply_categorical_not_equal(
                 [columns |-> frame.columns,
                  rows |-> SelectSeq(frame.rows, LAMBDA r : ~eq(r[col], sel[col]))],
                 sel, i + 1)
          ELSE apply_categorical_not_equal(frame, sel, i + 1)

RECURSIVE apply_categorical_district_in_region(_, _, _)
\* Variant: a district outside the selected region is dropped from the
\* selection instead of being matched.
apply_categorical_district_in_region(frame, sel, i) ==
  IF i > Len(categorical_filters) THEN frame
  ELSE LET col == categorical_filters[i]
       IN IF /\ col \in DOMAIN sel /\ sel[col] # "All"
             /\ (col = "district" =>
                   \E j \in 1..Len(frame.rows) : eq(frame.rows[j][col], sel[col]))
          THEN apply_categorical_district_in_region(
                 where_eq(frame, col, sel[col]), sel, i + 1)
          ELSE apply_categorical_district_in_region(frame, sel, i + 1)

RECURSIVE apply_categorical(_, _, _)
\* The loop of apply_filters over categorical_filters, from position i on.
apply_categorical(frame, sel, i) ==
  IF i > Len(categorical_filters) THEN frame
  ELSE LET col == categorical_filters[i]
       IN IF col \in DOMAIN sel /\ sel[col] # "All"
          THEN apply_categorical(
                 where_eq(frame, col, sel[col]), sel, i + 1)
          ELSE apply_categorical(frame, sel, i + 1)

\* Variant: the bounds are compared with the timestamp, the end bound taken
\* as the midnight that starts its day.
apply_date_timestamp(frame, sel) ==
  IF "date_start" \in DOMAIN sel /\ "date_end" \in DOMAIN sel
  THEN LET coerced == assign_to_datetime(frame)
       IN [columns |-> coerced.columns,
           rows |-> SelectSeq(coerced.rows, LAMBDA r :
                      /\ r.registration_date.ts >= sel["date_start"] * 100
                      /\ r.registration_date.ts <= sel["date_end"] * 100)]
  ELSE frame

apply_date(frame, sel) ==
  IF "date_start" \in DOMAIN sel /\ "date_end" \in DOMAIN sel
  THEN LET coerced == assign_to_datetime(frame)
       IN [columns |-> coerced.columns,
           rows |-> SelectSeq(coerced.rows, LAMBDA r :
                      /\ dt_date(r.registration_date) >= sel["date_start"]
                      /\ dt_date(r.registration_date) <= sel["date_end"])]
  ELSE frame

apply_household_size(frame, sel) ==
  IF "household_size_range" \in DOMAIN sel
  THEN LET min_size == sel["household_size_range"][1]
           max_size == sel["household_size_range"][2]
       IN [columns |-> frame.columns,
           rows |-> SelectSeq(frame.rows, LAMBDA r :
                      r.household_size >= min_size /\ r.household_size <= max_size)]
  ELSE frame

Reverse(seq) == [i \in 1..Len(seq) |-> seq[Len(seq) + 1 - i]]

\* Variant: the result is sorted, newest index first.
apply_filters_resorted(frame, sel) ==
  LET filtered0 == copy(frame)
      filtered1 == apply_categorical(filtered0, sel, 1)
      filtered2 == apply_date(filtered1, sel)
      filtered3 == apply_household_size(filtered2, sel)
  IN [filtered3 EXCEPT !.rows = Reverse(filtered3.rows)]

apply_filters(frame, sel) ==
  LET filtered0 == copy(frame)
      filtered1 == apply_categorical(filtered0, sel, 1)
      filtered2 == apply_date(filtered1, sel)
  IN apply_household_size(filtered2, sel)

\* The frame the caller passed to apply_filters, after the call: the function
\* works on its own copy.
apply_filters_arg(frame, sel) == frame


\* ------------------------------------------------------ the KPI engine
RECURSIVE SumOver(_, _)
\* Series.sum() of an integer column.
SumOver(rows, col) ==
  IF rows = <<>> THEN 0 ELSE rows[1][col] + SumOver(Tail(rows), col)

\* len(df[df[col] == v])
CountEq(frame, col, v) == Len(SelectSeq(frame.rows, LAMBDA r : eq(r[col], v)))

\* Series.nunique(): the distinct values, missing ones left out.
nunique(frame, col) ==
  Cardinality({frame.rows[i][col] : i \in 1..Len(frame.rows)} \ {NaN})

\* Variant: the percentage count / total * 100.
rate_percent(count, total) == IF total > 0 THEN <<count * 100, total>> ELSE <<0, 1>>

\* Variant: the division is not guarded; a zero total gives no number.
rate_unguarded(count, total) == <<count, total>>

\* count / total as the exact fraction <<numerator, denominator>>, and the
\* integer 0 (as 0/1) when the total is 0.
rate(count, total) == IF total > 0 THEN <<count, total>> ELSE <<0, 1>>

\* A float is the exact fraction <<numerator, denominator>>; the float nan, the
\* result of 0 / 0, is the fraction with denominator 0.
FloatNaN == <<0, 0>>

\* Series.mean(): the sum over the count; nan for an empty column.
mean(frame, col) ==
  IF Len(frame.rows) = 0 THEN FloatNaN
  ELSE <<SumOver(frame.rows, col), Len(frame.rows)>>

calculate_kpis(frame) ==
  LET total == Len(frame.rows)
      solutions_achieved == CountEq(frame, "pathway_stage", "Achieved")
      female_hoh_count == CountEq(frame, "gender_hoh", "Female")
      livelihood_support_count == CountEq(frame, "livelihood_support", "Yes")
      complete_documentation == CountEq(frame, "documentation_status", "Complete")
  IN [total_beneficiaries |-> total,
      total_individuals |-> SumOver(frame.rows, "household_size"),
      solutions_achieved |-> solutions_achieved,
      achievement_rate |-> rate(solutions_achieved, total),
      female_hoh_count |-> female_hoh_count,
      female_hoh_percentage |-> rate(female_hoh_count, total),
      livelihood_support_count |-> livelihood_support_count,
      livelihood_support_percentage |-> rate(livelihood_support_count, total),
      complete_documentation |-> complete_documentation,
      documentation_rate |-> rate(complete_documentation, total),
      emergency_shelter |-> CountEq(frame, "shelter_status", "Emergency"),
      transitional_shelter |-> CountEq(frame, "shelter_status", "Transitional"),
      permanent_shelter |-> CountEq(frame, "shelter_status", "Permanent"),
      idp_count |-> CountEq(frame, "displacement_status", "IDP"),
      returnee_count |-> CountEq(frame, "displacement_status", "Returnee"),
      host_community_count |-> CountEq(frame, "displacement_status", "Host Community"),
      return_pathway |-> CountEq(frame, "solutions_pathway", "Return"),
      local_integration_pathway |-> CountEq(frame, "solutions_pathway", "Local Integration"),
      relocation_pathway |-> CountEq(frame, "solutions_pathway", "Relocation"),
      assessment_stage |-> CountEq(frame, "pathway_stage", "Assessment"),
      planning_stage |-> CountEq(frame, "pathway_stage", "Planning"),
      implementation_stage |-> CountEq(frame, "pathway_stage", "Implementation"),
      achieved_stage |-> CountEq(frame, "pathway_stage", "Achieved"),
      avg_household_size |-> mean(frame, "household_size"),
      regions_covered |-> nunique(frame, "region"),
      districts_covered |-> nunique(frame, "district")]

\* --------------------------------------------------- grouped aggregators
\* The texts of the sample cells in the order Python compares strings.
Collation ==
  <<"Achieved", "Alpha", "Assessment", "Beta", "Complete", "Emergency",
    "Female", "Gamma", "Host Community", "IDP", "Implementation",
    "Local Integration", "Male", "No", "North", "Partial", "Permanent",
    "Planning", "Refugee", "Relocation", "Return", "Returnee", "South",
    "Suspended", "Transitional", "Yes">>

StrRank(x) == CHOOSE i \in 1..Len(Collation) : Collation[i] = x

RECURSIVE SortedTexts(_)
\* The texts of S in ascending order.
SortedTexts(S) ==
  IF S = {} THEN <<>>
  ELSE LET m == CHOOSE x \in S : \A y \in S : StrRank(x) <= StrRank(y)
       IN <<m>> \o SortedTexts(S \ {m})

RECURSIVE SortedInts(_)
SortedInts(S) ==
  IF S = {} THEN <<>>
  ELSE LET m == CHOOSE x \in S : \A y \in S : x <= y
       IN <<m>> \o SortedInts(S \ {m})

\* The keys of df.groupby(col) for a text column: the distinct values, missing
\* ones dropped.
GroupKeys(frame, col) == {frame.rows[i][col] : i \in 1..Len(frame.rows)} \ {NaN}

\* The number of rows whose flag column is True (sum of a boolean column).
CountTrue(rows, col) == Len(SelectSeq(rows, LAMBDA r : r[col]))

\* (num / den * 100).round(1), in tenths of a percent: 667 stands for 66.7.
\* Ties go to the even tenth.
round1(num, den) ==
  LET q == (num * 1000) \div den
      rem == (num * 1000) % den
  IN IF 2 * rem < den THEN q
     ELSE IF 2 * rem > den THEN q + 1
     ELSE IF q % 2 = 0 THEN q ELSE q + 1

\* Variant: the percentage is cut to one decimal, not rounded.
percent1_truncated(a, b) == IF b = 0 THEN FloatNaN ELSE <<(a * 1000) \div b, 10>>

\* (a / b * 100).round(1) of two integer columns, as a float: tenths over 10,
\* and nan where both a and b are 0.
percent1(a, b) == IF b = 0 THEN FloatNaN ELSE <<round1(a, b), 10>>

\* Variant: a row for every region of the sample values, also one without a
\* record.
regional_groups_all_regions(frame) ==
  LET keys == SortedTexts(GroupKeys(frame, "region") \cup SampleValues["region"])
  IN [i \in 1..Len(keys) |->
        LET g == SelectSeq(frame.rows, LAMBDA r : eq(r.region, keys[i]))
            beneficiaries == Len(g)
            achieved == CountTrue(g, "is_achieved")
            female_hoh == CountTrue(g, "is_female_hoh")
        IN [region |-> keys[i],
            beneficiaries |-> beneficiaries,
            individuals |-> SumOver(g, "household_size"),
            female_hoh |-> female_hoh,
            achieved |-> achieved,
            livelihood_support |-> CountTrue(g, "has_livelihood_support"),
            achievement_rate |-> percent1(achieved, beneficiaries),
            female_hoh_rate |-> percent1(female_hoh, beneficiaries)]]

\* The summary rows in the order groupby leaves them: by region, ascending.
regional_groups(frame) ==
  LET keys == SortedTexts(GroupKeys(frame, "region"))
  IN [i \in 1..Len(keys) |->
        LET g == SelectSeq(frame.rows, LAMBDA r : eq(r.region, keys[i]))
            beneficiaries == Len(g)
            achieved == CountTrue(g, "is_achieved")
            female_hoh == CountTrue(g, "is_female_hoh")
        IN [region |-> keys[i],
            beneficiaries |-> beneficiaries,
            individuals |-> SumOver(g, "household_size"),
            female_hoh |-> female_hoh,
            achieved |-> achieved,
            livelihood_support |-> CountTrue(g, "has_livelihood_support"),
            achievement_rate |-> percent1(achieved, beneficiaries),
            female_hoh_rate |-> percent1(female_hoh, beneficiaries)]]

\* Variant: the sort is ascending.
get_regional_summary_ascending(frame) ==
  LET groups == regional_groups(frame)
      n == Len(groups)
  IN { [i \in 1..n |-> groups[perm[i]]] : perm \in
         {q \in Permutations(1..n) :
            \A i \in 1..n, j \in 1..n :
              i < j => groups[q[i]].beneficiaries <= groups[q[j]].beneficiaries} }

\* The tables sort_values('beneficiaries', ascending=False) may return: the
\* default sort is not stable, so rows with equal counts come in any order.
get_regional_summary(frame) ==
  LET groups == regional_groups(frame)
      n == Len(groups)
  IN { [i \in 1..n |-> groups[perm[i]]] : perm \in
         {q \in Permutations(1..n) :
            \A i \in 1..n, j \in 1..n :
              i < j => groups[q[i]].beneficiaries >= groups[q[j]].beneficiaries} }

\* Python's None.
PyNone == "PyNone"

\* Period.astype(str): the text 'YYYY-MM' of a month period.
period_str(m) == [kind |-> "str", year |-> m \div 100, month |-> m % 100]

\* Variant: the column is copied, not accumulated.
cumsum_copied(values) == values

RECURSIVE cumsum(_)
cumsum(values) ==
  IF values = <<>> THEN <<>>
  ELSE LET before == cumsum(SubSeq(values, 1, Len(values) - 1))
       IN Append(before,
                 values[Len(values)] + (IF before = <<>> THEN 0 ELSE before[Len(before)]))

get_monthly_trends(frame, value_col) ==
  LET work == assign_month(copy(frame))
      months == SortedInts({work.rows[i].month : i \in 1..Len(work.rows)})
      value == [i \in 1..Len(months) |->
                  LET g == SelectSeq(work.rows, LAMBDA r : r.month = months[i])
                  IN IF value_col # PyNone THEN SumOver(g, value_col) ELSE Len(g)]
      cumulative == cumsum(value)
  IN [i \in 1..Len(months) |->
        [month |-> period_str(months[i]), value |-> value[i],
         cumulative |-> cumulative[i]]]

\* Variant: the month column is written to the frame that was passed in.
get_monthly_trends_arg_no_copy(frame, value_col) ==
  assign_month(frame)

\* The frame the caller passed to get_monthly_trends, after the call: the
\* month column goes to a copy.
get_monthly_trends_arg(frame, value_col) == frame

\* Variant: the stage columns in the order the pivot leaves them (sorted).
stage_order_sorted == <<"Achieved", "Assessment", "Implementation", "Planning">>

stage_order == <<"Assessment", "Planning", "Implementation", "Achieved">>

\* Variant: the pathway axis is zero-filled too, a row for every enumerated
\* pathway.
get_pathway_progress_all_pathways(frame) ==
  LET staged == SelectSeq(frame.rows, LAMBDA r : r.pathway_stage # NaN)
      keys == SortedTexts(({staged[i].solutions_pathway : i \in 1..Len(staged)} \ {NaN})
                          \cup {"Return", "Local Integration", "Relocation"})
  IN [columns |-> stage_order \o <<"Total", "Achievement Rate">>,
      rows |-> [i \in 1..Len(keys) |->
        LET n(stage) == Len(SelectSeq(staged, LAMBDA r :
                              /\ eq(r.solutions_pathway, keys[i])
                              /\ eq(r.pathway_stage, stage)))
            Total == n(stage_order[1]) + n(stage_order[2])
                     + n(stage_order[3]) + n(stage_order[4])
        IN ("solutions_pathway" :> keys[i])
           @@ [c \in Range(stage_order) |-> n(c)]
           @@ ("Total" :> Total)
           @@ ("Achievement Rate" :> percent1(n("Achieved"), Total))]]

\* Variant: Total is taken before the reindex, over every stage that occurs.
get_pathway_progress_total_first(frame) ==
  LET staged == SelectSeq(frame.rows, LAMBDA r : r.pathway_stage # NaN)
      keys == SortedTexts({staged[i].solutions_pathway : i \in 1..Len(staged)} \ {NaN})
  IN [columns |-> stage_order \o <<"Total", "Achievement Rate">>,
      rows |-> [i \in 1..Len(keys) |->
        LET n(stage) == Len(SelectSeq(staged, LAMBDA r :
                              /\ eq(r.solutions_pathway, keys[i])
                              /\ eq(r.pathway_stage, stage)))
            Total == Len(SelectSeq(staged, LAMBDA r : eq(r.solutions_pathway, keys[i])))
        IN ("solutions_pathway" :> keys[i])
           @@ [c \in Range(stage_order) |-> n(c)]
           @@ ("Total" :> Total)
           @@ ("Achievement Rate" :> percent1(n("Achieved"), Total))]]

\* The progress table: its columns in order, and one row per pathway (the
\* index of the table), ascending.  The stage columns are those of
\* stage_order; any other stage is dropped by the reindex.
get_pathway_progress(frame) ==
  LET staged == SelectSeq(frame.rows, LAMBDA r : r.pathway_stage # NaN)
      keys == SortedTexts({staged[i].solutions_pathway : i \in 1..Len(staged)} \ {NaN})
  IN [columns |-> stage_order \o <<"Total", "Achievement Rate">>,
      rows |-> [i \in 1..Len(keys) |->
        LET n(stage) == Len(SelectSeq(staged, LAMBDA r :
                              /\ eq(r.solutions_pathway, keys[i])
                              /\ eq(r.pathway_stage, stage)))
            Total == n(stage_order[1]) + n(stage_order[2])
                     + n(stage_order[3]) + n(stage_order[4])
        IN ("solutions_pathway" :> keys[i])
           @@ [c \in Range(stage_order) |-> n(c)]
           @@ ("Total" :> Total)
           @@ ("Achievement Rate" :> percent1(n("Achieved"), Total))]]

\* ------------------------------------------------- flow/graph aggregator
RECURSIVE unique(_, _)
\* Series.unique(): the distinct values in first-seen order.
unique(rows, col) ==
  IF rows = <<>> THEN <<>>
  ELSE LET before == unique(SubSeq(rows, 1, Len(rows) - 1), col)
           v == rows[Len(rows)][col]
       IN IF v \in Range(before) THEN before ELSE Append(before, v)

\* {label: idx for idx, label in enumerate(labels)}: a label that occurs
\* twice keeps its last position.
label_to_index(labels) ==
  [l \in Range(labels) |->
     (CHOOSE i \in 1..Len(labels) :
        labels[i] = l /\ \A j \in 1..Len(labels) : labels[j] = l => j <= i) - 1]

\* df.groupby([a, b]).size().reset_index(name='count'): one row per pair that
\* occurs, ascending by a, then by b.
group_sizes(frame, a, b) ==
  LET as == SortedTexts(GroupKeys(frame, a))
      pairs(i) ==
        LET bs == SortedTexts(
                    {r[b] : r \in {x \in Range(frame.rows) : eq(x[a], as[i])}} \ {NaN})
        IN [j \in 1..Len(bs) |->
              [first |-> as[i], second |-> bs[j],
               count |-> Len(SelectSeq(frame.rows, LAMBDA r :
                                eq(r[a], as[i]) /\ eq(r[b], bs[j])))]]
      flat[i \in 0..Len(as)] == IF i = 0 THEN <<>> ELSE flat[i - 1] \o pairs(i)
  IN flat[Len(as)]

\* The node labels and the link lists create_sankey hands to the figure.
create_sankey(frame, source_col, middle_col, target_col) ==
  LET all_labels == unique(frame.rows, source_col) \o unique(frame.rows, middle_col)
                    \o unique(frame.rows, target_col)
      index == label_to_index(all_labels)
      source_to_middle == group_sizes(frame, source_col, middle_col)
      middle_to_target == group_sizes(frame, middle_col, target_col)
      flows == source_to_middle \o middle_to_target
  IN [labels |-> all_labels,
      sources |-> [i \in 1..Len(flows) |-> index[flows[i].first]],
      targets |-> [i \in 1..Len(flows) |-> index[flows[i].second]],
      values |-> [i \in 1..Len(flows) |-> flows[i].count]]

\* Variant: the middle-to-target links are listed before the source-to-middle
\* links.
prepare_sankey_data_target_first(frame, source_col, middle_col, target_col) ==
  LET labels == unique(frame.rows, source_col) \o unique(frame.rows, middle_col)
                \o unique(frame.rows, target_col)
      label_to_idx == label_to_index(labels)
      flows == group_sizes(frame, middle_col, target_col)
               \o group_sizes(frame, source_col, middle_col)
  IN <<labels,
       [i \in 1..Len(flows) |-> label_to_idx[flows[i].first]],
       [i \in 1..Len(flows) |-> label_to_idx[flows[i].second]],
       [i \in 1..Len(flows) |-> flows[i].count]>>

\* The tuple (labels, sources, targets, values) prepare_sankey_data returns.
prepare_sankey_data(frame, source_col, middle_col, target_col) ==
  LET source_values == unique(frame.rows, source_col)
      middle_values == unique(frame.rows, middle_col)
      target_values == unique(frame.rows, target_col)
      labels == source_values \o middle_values \o target_values
      label_to_idx == label_to_index(labels)
      source_to_middle == group_sizes(frame, source_col, middle_col)
      middle_to_target == group_sizes(frame, middle_col, target_col)
      sources == [i \in 1..Len(source_to_middle) |-> label_to_idx[source_to_middle[i].first]]
                 \o [i \in 1..Len(middle_to_target) |-> label_to_idx[middle_to_target[i].first]]
      targets == [i \in 1..Len(source_to_middle) |-> label_to_idx[source_to_middle[i].second]]
                 \o [i \in 1..Len(middle_to_target) |-> label_to_idx[middle_to_target[i].second]]
      values == [i \in 1..Len(source_to_middle) |-> source_to_middle[i].count]
                \o [i \in 1..Len(middle_to_target) |-> middle_to_target[i].count]
  IN <<labels, sources, targets, values>>

\* The node labels and the link lists create_simple_sankey hands to the figure.
create_simple_sankey(frame, source_col, target_col) ==
  LET source_values == unique(frame.rows, source_col)
      target_values == unique(frame.rows, target_col)
      all_labels == source_values \o target_values
      index == label_to_index(all_labels)
      flows == group_sizes(frame, source_col, target_col)
  IN [labels |-> all_labels,
      sources |-> [i \in 1..Len(flows) |-> index[flows[i].first]],
      targets |-> [i \in 1..Len(flows) |-> index[flows[i].second]],
      values |-> [i \in 1..Len(flows) |-> flows[i].count]]

\* ------------------------------------------------- the progress widget
\* Variant: the ratio is not clamped.
render_progress_indicator_unclamped(cur, tgt) ==
  IF tgt > 0 THEN <<cur * 100, tgt>> ELSE <<0, 1>>

\* percentage of render_progress_indicator, as a fraction <<num, den>>:
\* min((current / target) * 100, 100) if target > 0 else 0.
render_progress_indicator(cur, tgt) ==
  IF tgt > 0
  THEN (IF cur * 100 <= 100 * tgt THEN <<cur * 100, tgt>> ELSE <<100, 1>>)
  ELSE <<0, 1>>

\* ------------------------------------------------- selection structures
\* A set of partial selections is a set of pairs <<dict, n>>, n the number of
\* keys of dict that count against the bound.  AddKey gives every partial
\* selection the key: each value of free at no cost, each value of costly at
\* cost 1 while the bound allows.
AddKey(S, key, free, costly, bound) ==
  UNION { {<<p[1] @@ (key :> v), p[2]>> : v \in free}
          \cup (IF p[2] < bound
                THEN {<<p[1] @@ (key :> v), p[2] + 1>> : v \in costly}
                ELSE {})
          : p \in S }

\* The same for the two date keys, set together from a pair <<start, end>>.
AddDates(S, free, costly, bound) ==
  UNION { {<<p[1] @@ ("date_start" :> v[1]) @@ ("date_end" :> v[2]), p[2]>> : v \in free}
          \cup (IF p[2] < bound
                THEN {<<p[1] @@ ("date_start" :> v[1]) @@ ("date_end" :> v[2]), p[2] + 1>>
                      : v \in costly}
                ELSE {})
          : p \in S }

RECURSIVE AddCategoricals(_, _, _)
AddCategoricals(S, i, bound) ==
  IF i > Len(categorical_filters) THEN S
  ELSE LET col == categorical_filters[i]
       IN AddCategoricals(AddKey(S, col, {"All"}, SampleValues[col], bound), i + 1, bound)

\* The selection without the categorical keys it leaves at 'All'.
Sparse(sel) ==
  [k \in {c \in DOMAIN sel :
            \/ c \in {"date_start", "date_end", "household_size_range"}
            \/ sel[c] # "All"} |-> sel[k]]

\* Selections a caller may hand to apply_filters: at most MaxActive keys
\* constrain; a date bound or a size range that is present counts as one; the
\* other keys are 'All' or absent.
Selections ==
  LET cats == AddCategoricals({<<EmptyDict, 0>>}, 1, MaxActive)
      dated == cats
               \cup AddDates(cats, {}, SampleDates \X SampleDates, MaxActive)
               \cup AddKey(cats, "date_start", {}, SampleDates, MaxActive)
      sized == dated
               \cup AddKey(dated, "household_size_range", {},
                           SampleSizes \X SampleSizes, MaxActive)
  IN {p[1] : p \in sized} \cup {Sparse(p[1]) : p \in sized}

\* The values of a column.
Values(frame, col) == {frame.rows[i][col] : i \in 1..Len(frame.rows)}

\* The filter dictionaries render_sidebar_filters can return for the frame:
\* every widget at its default, or at most MaxChanged of them moved to another
\* of the options the widget offers.
WidgetSelections(frame) ==
  LET start == {<<EmptyDict, 0>>}
      region == AddKey(start, "region", {"All"}, Values(frame, "region"), MaxChanged)
      district ==
        UNION { AddKey({p}, "district", {"All"},
                       IF p[1]["region"] # "All"
                       THEN Values(where_eq(frame, "region", p[1]["region"]), "district")
                       ELSE Values(frame, "district"),
                       MaxChanged) : p \in region }
      pathway == AddKey(district, "solutions_pathway", {"All"},
                        Values(frame, "solutions_pathway"), MaxChanged)
      stage == AddKey(pathway, "pathway_stage", {"All"}, Range(stage_order), MaxChanged)
      status == AddKey(stage, "displacement_status", {"All"},
                       Values(frame, "displacement_status"), MaxChanged)
      min_date == MinOf({dt_date(r.registration_date) : r \in Range(frame.rows)})
      max_date == MaxOf({dt_date(r.registration_date) : r \in Range(frame.rows)})
      days == {d \in SampleDates : min_date <= d /\ d <= max_date}
      dates == IF "registration_date" \in frame.columns
               THEN AddDates(status, {<<min_date, max_date>>},
                             {v \in days \X days : v[1] <= v[2]} \ {<<min_date, max_date>>},
                             MaxChanged)
               ELSE status
      gender == AddKey(dates, "gender_hoh", {"All"}, Values(frame, "gender_hoh"), MaxChanged)
      shelter == AddKey(gender, "shelter_status", {"All"},
                        Values(frame, "shelter_status"), MaxChanged)
      livelihood == AddKey(shelter, "livelihood_support", {"All"}, {"Yes", "No"}, MaxChanged)
      documentation == AddKey(livelihood, "documentation_status", {"All"},
                              Values(frame, "documentation_status") \ {NaN}, MaxChanged)
      min_hh == MinOf(Values(frame, "household_size"))
      max_hh == MaxOf(Values(frame, "household_size"))
      sizes == AddKey(documentation, "household_size_range", {<<min_hh, max_hh>>},
                      {v \in (min_hh..max_hh) \X (min_hh..max_hh) : v[1] <= v[2]}
                        \ {<<min_hh, max_hh>>},
                      MaxChanged)
  IN {p[1] : p \in sizes}

\* The frame the caller passed to render_sidebar_filters, after the call: the
\* date column is assigned in place.
render_sidebar_filters_arg(frame) ==
  IF "registration_date" \in frame.columns
  THEN assign_to_datetime(frame)
  ELSE frame

\* ----------------------------------------------------------------- state
VARIABLES
  source,            \* the source table on disk
  value_col_arg,         \* the value_col argument of get_monthly_trends
  cache,             \* st.cache_data's stored result of load_data()
  df,                \* main(): df
  filters,           \* main(): filters
  filtered_df,       \* main(): filtered_df
  kpis,              \* main(): kpis
  sankey_fig,        \* main(): the data of sankey_fig
  sankey_data,       \* a caller's result of prepare_sankey_data
  regional_summary,  \* main(): regional_summary
  monthly_data,      \* main(): monthly_data
  pathway_progress,  \* main(): pathway_progress
  flow_cols,         \* the column arguments of the flow aggregators
  simple_fig,        \* a caller's result of create_simple_sankey: the data of the figure
  current,           \* the current argument of render_progress_indicator
  target,            \* the target argument of render_progress_indicator
  percentage,        \* render_progress_indicator: percentage
  earlier_narrowed,  \* history: an earlier run of the session left records out
  err,               \* the exception that ended the run, "none" while there is none
  pc                 \* the position in main()

reports == <<sankey_fig, sankey_data, regional_summary, monthly_data, pathway_progress>>

flow == <<flow_cols, simple_fig>>

widget == <<current, target, percentage>>

vars == <<source, value_col_arg, cache, df, filters, filtered_df, kpis, reports, flow,
          widget, earlier_narrowed, err, pc>>

\* The column arguments main() leaves at create_sankey's defaults.
DefaultColumns == <<"displacement_status", "solutions_pathway", "pathway_stage">>

\* Nothing is bound yet.
Unbound == "unbound"

EmptyCache == [stored |-> FALSE, value |-> [columns |-> {}, rows |-> <<>>]]

\* ------------------------------------------------------ one run of main()
Init ==
  /\ source \in Sources
  /\ value_col_arg = PyNone
  /\ flow_cols = DefaultColumns
  /\ simple_fig = Unbound
  /\ current = 0
  /\ target = 0
  /\ percentage = Unbound
  /\ earlier_narrowed = FALSE
  /\ cache = EmptyCache
  /\ df = Unbound
  /\ filters = Unbound
  /\ filtered_df = Unbound
  /\ kpis = Unbound
  /\ sankey_fig = Unbound
  /\ sankey_data = Unbound
  /\ regional_summary = Unbound
  /\ monthly_data = Unbound
  /\ pathway_progress = Unbound
  /\ err = "none"
  /\ pc = "load"

\* df = load_data(): the first run loads the table and stores the result;
\* a later run gets a copy of the stored result.
LoadData ==
  /\ pc = "load"
  /\ \/ /\ ~cache.stored
        /\ cache' = [stored |-> TRUE, value |-> load_and_process_data(source)]
        /\ df' = copy(load_and_process_data(source))
     \/ /\ cache.stored
        /\ cache' = cache
        /\ df' = copy(cache.value)
  /\ pc' = "sidebar"
  /\ UNCHANGED <<source, value_col_arg, flow, widget, earlier_narrowed, filters, filtered_df, kpis, reports, err>>

\* filters = render_sidebar_filters(df); the min() of an empty column is not
\* a date or a number, and the widgets cannot be built from it.
RenderSidebarFilters ==
  /\ pc = "sidebar"
  /\ \/ /\ df.rows = <<>>
        /\ err' = "Exception"
        /\ pc' = "failed"
        /\ UNCHANGED <<df, filters>>
     \/ /\ df.rows # <<>>
        /\ filters' \in WidgetSelections(df)
        /\ df' = render_sidebar_filters_arg(df)
        /\ pc' = "filter"
        /\ UNCHANGED err
  /\ UNCHANGED <<source, value_col_arg, flow, widget, earlier_narrowed, cache, filtered_df, kpis, reports>>

\* Variant: the filtered rows are written back to the cached record set.
ApplyFilters_narrowing_cache ==
  /\ pc = "filter"
  /\ filtered_df' = apply_filters(df, filters)
  /\ df' = apply_filters_arg(df, filters)
  /\ cache' = [cache EXCEPT !.value = apply_filters(df, filters)]
  /\ pc' = "kpis"
  /\ UNCHANGED <<source, value_col_arg, flow, widget, earlier_narrowed, filters, kpis,
                 reports, err>>

\* filtered_df = apply_filters(df, filters)
ApplyFilters ==
  /\ pc = "filter"
  /\ filtered_df' = apply_filters(df, filters)
  /\ df' = apply_filters_arg(df, filters)
  /\ pc' = "kpis"
  /\ UNCHANGED <<source, value_col_arg, flow, widget, earlier_narrowed, cache, filters, kpis, reports, err>>

\* kpis = calculate_kpis(filtered_df)
CalculateKpis ==
  /\ pc = "kpis"
  /\ kpis' = calculate_kpis(filtered_df)
  /\ pc' = "sankey"
  /\ UNCHANGED <<source, value_col_arg, flow, widget, earlier_narrowed, cache, df, filters, filtered_df, reports, err>>

\* sankey_fig = create_sankey(filtered_df, ...)
CreateSankey ==
  /\ pc = "sankey"
  /\ sankey_fig' = create_sankey(filtered_df, "displacement_status",
                                 "solutions_pathway", "pathway_stage")
  /\ pc' = "regional"
  /\ UNCHANGED <<source, value_col_arg, flow, widget, earlier_narrowed, cache, df, filters, filtered_df, kpis, sankey_data,
                 regional_summary, monthly_data, pathway_progress, err>>

\* regional_summary = get_regional_summary(filtered_df)
GetRegionalSummary ==
  /\ pc = "regional"
  /\ regional_summary' \in get_regional_summary(filtered_df)
  /\ pc' = "monthly"
  /\ UNCHANGED <<source, value_col_arg, flow, widget, earlier_narrowed, cache, df, filters, filtered_df, kpis,
                 sankey_fig, sankey_data, monthly_data, pathway_progress, err>>

\* monthly_data = get_monthly_trends(filtered_df)
GetMonthlyTrends ==
  /\ pc = "monthly"
  /\ monthly_data' = get_monthly_trends(filtered_df, value_col_arg)
  /\ filtered_df' = get_monthly_trends_arg(filtered_df, value_col_arg)
  /\ pc' = "pathway"
  /\ UNCHANGED <<source, value_col_arg, flow, widget, earlier_narrowed, cache, df, filters, kpis,
                 sankey_fig, sankey_data, regional_summary, pathway_progress, err>>

\* pathway_progress = get_pathway_progress(filtered_df)
GetPathwayProgress ==
  /\ pc = "pathway"
  /\ pathway_progress' = get_pathway_progress(filtered_df)
  /\ pc' = "done"
  /\ UNCHANGED <<source, value_col_arg, flow, widget, earlier_narrowed, cache, df, filters, filtered_df, kpis,
                 sankey_fig, sankey_data, regional_summary, monthly_data, err>>

\* A widget changes, or the page is reloaded: the script runs again from the
\* top, its variables unbound; only the cache outlives the run.
Rerun ==
  /\ pc \in {"done", "failed"}
  /\ df' = Unbound
  /\ filters' = Unbound
  /\ filtered_df' = Unbound
  /\ kpis' = Unbound
  /\ sankey_fig' = Unbound
  /\ sankey_data' = Unbound
  /\ regional_summary' = Unbound
  /\ monthly_data' = Unbound
  /\ pathway_progress' = Unbound
  /\ err' = "none"
  /\ pc' = "load"
  /\ earlier_narrowed' = (earlier_narrowed
                          \/ (pc = "done" /\ Len(filtered_df.rows) < Len(df.rows)))
  /\ UNCHANGED <<source, value_col_arg, flow, widget, cache>>

Next ==
  \/ LoadData
  \/ RenderSidebarFilters
  \/ ApplyFilters
  \/ CalculateKpis
  \/ CreateSankey
  \/ GetRegionalSummary
  \/ GetMonthlyTrends
  \/ GetPathwayProgress
  \/ Rerun

Spec == Init /\ [][Next]_vars

\* ------------------------------------------- apply_filters, called alone
\* A caller holds a loaded record set and hands apply_filters a selection.
InitCall ==
  /\ source \in Sources
  /\ value_col_arg = PyNone
  /\ flow_cols = DefaultColumns
  /\ simple_fig = Unbound
  /\ current = 0
  /\ target = 0
  /\ percentage = Unbound
  /\ earlier_narrowed = FALSE
  /\ cache = EmptyCache
  /\ df = load_and_process_data(source)
  /\ filters = Unbound
  /\ filtered_df = Unbound
  /\ kpis = Unbound
  /\ sankey_fig = Unbound
  /\ sankey_data = Unbound
  /\ regional_summary = Unbound
  /\ monthly_data = Unbound
  /\ pathway_progress = Unbound
  /\ err = "none"
  /\ pc = "call"

CallApplyFilters ==
  /\ pc = "call"
  /\ \E sel \in Selections :
       /\ filters' = sel
       /\ filtered_df' = apply_filters(df, sel)
       /\ df' = apply_filters_arg(df, sel)
  /\ pc' = "returned"
  /\ UNCHANGED <<source, value_col_arg, flow, widget, earlier_narrowed, cache, kpis, reports, err>>

NextCall == CallApplyFilters

SpecCall == InitCall /\ [][NextCall]_vars

\* ------------------------------------------ the aggregators, called alone
\* A row whose pathway_stage is outside the enumerated stages; the loader
\* keeps such a row.
UnknownStageRow ==
  [region |-> "South", district |-> "Gamma", displacement_status |-> "Returnee",
   solutions_pathway |-> "Relocation", pathway_stage |-> "Suspended",
   household_size |-> 3, gender_hoh |-> "Male", shelter_status |-> "Permanent",
   documentation_status |-> "Complete", livelihood_support |-> "No",
   registration_date |-> [kind |-> "str", ts |-> 24013100]]

\* A row whose district bears the name of a region.
SameNameRow ==
  [region |-> "North", district |-> "North", displacement_status |-> "IDP",
   solutions_pathway |-> "Local Integration", pathway_stage |-> "Planning",
   household_size |-> 2, gender_hoh |-> "Female", shelter_status |-> "Transitional",
   documentation_status |-> "None", livelihood_support |-> "No",
   registration_date |-> [kind |-> "str", ts |-> 24020112]]

\* The source tables of a caller of the aggregators: at least one and at most
\* MaxRecords rows.
ReportSources ==
  { [columns |-> SchemaColumns,
     rows |-> [i \in 1..Len(s) |-> s[i] @@ ("beneficiary_id" :> i)]]
    : s \in SeqsUpTo(SampleRows \cup {UnknownStageRow, SameNameRow}, MaxRecords)
             \ {<<>>} }

\* The selections the caller filters the loaded record set with.
ReportSelections ==
  {EmptyDict, ("pathway_stage" :> "Planning"), ("region" :> "North")}

\* The value_col arguments of get_monthly_trends.
ValueColumns == {PyNone, "household_size"}

\* The column arguments <<source_col, middle_col, target_col>> of the flow
\* aggregators; the two-stage form takes the first two.
FlowColumns ==
  {DefaultColumns,
   <<"region", "district", "pathway_stage">>,
   <<"displacement_status", "region", "district">>,
   <<"shelter_status", "documentation_status", "livelihood_support">>}

\* A caller holds a record set R (filtered_df): a loaded record set, filtered.
\* It calls each aggregator on R, one after the other; pc is the set of the
\* calls that have returned.  The flow aggregators are called with the same
\* columns, chosen at the first of these calls.
InitReport ==
  /\ source \in ReportSources
  /\ value_col_arg \in ValueColumns
  /\ flow_cols = DefaultColumns
  /\ simple_fig = Unbound
  /\ current = 0
  /\ target = 0
  /\ percentage = Unbound
  /\ earlier_narrowed = FALSE
  /\ cache = EmptyCache
  /\ df = load_and_process_data(source)
  /\ filters \in ReportSelections
  /\ filtered_df = apply_filters(df, filters)
  /\ kpis = Unbound
  /\ sankey_fig = Unbound
  /\ sankey_data = Unbound
  /\ regional_summary = Unbound
  /\ monthly_data = Unbound
  /\ pathway_progress = Unbound
  /\ err = "none"
  /\ pc = {}

CallCalculateKpis ==
  /\ pc = {}
  /\ kpis' = calculate_kpis(filtered_df)
  /\ pc' = pc \cup {"calculate_kpis"}
  /\ UNCHANGED <<source, value_col_arg, flow, widget, earlier_narrowed, cache, df, filters, filtered_df, reports, err>>

CallGetRegionalSummary ==
  /\ pc = {"calculate_kpis"}
  /\ regional_summary' \in get_regional_summary(filtered_df)
  /\ pc' = pc \cup {"get_regional_summary"}
  /\ UNCHANGED <<source, value_col_arg, flow, widget, earlier_narrowed, cache, df, filters, filtered_df, kpis,
                 sankey_fig, sankey_data, monthly_data, pathway_progress, err>>

CallGetMonthlyTrends ==
  /\ pc = {"calculate_kpis", "get_regional_summary"}
  /\ monthly_data' = get_monthly_trends(filtered_df, value_col_arg)
  /\ filtered_df' = get_monthly_trends_arg(filtered_df, value_col_arg)
  /\ pc' = pc \cup {"get_monthly_trends"}
  /\ UNCHANGED <<source, value_col_arg, flow, widget, earlier_narrowed, cache, df, filters, kpis,
                 sankey_fig, sankey_data, regional_summary, pathway_progress, err>>

CallGetPathwayProgress ==
  /\ pc = {"calculate_kpis", "get_regional_summary", "get_monthly_trends"}
  /\ pathway_progress' = get_pathway_progress(filtered_df)
  /\ pc' = pc \cup {"get_pathway_progress"}
  /\ UNCHANGED <<source, value_col_arg, flow, widget, earlier_narrowed, cache, df, filters, filtered_df, kpis,
                 sankey_fig, sankey_data, regional_summary, monthly_data, err>>

CallPrepareSankeyData ==
  /\ pc = {"calculate_kpis", "get_regional_summary", "get_monthly_trends", "get_pathway_progress"}
  /\ \E cols \in FlowColumns :
       /\ flow_cols' = cols
       /\ sankey_data' = prepare_sankey_data(filtered_df, cols[1], cols[2], cols[3])
  /\ pc' = pc \cup {"prepare_sankey_data"}
  /\ UNCHANGED <<source, value_col_arg, simple_fig, widget, earlier_narrowed, cache, df,
                 filters, filtered_df, kpis, sankey_fig, regional_summary, monthly_data,
                 pathway_progress, err>>

CallCreateSankey ==
  /\ pc = {"calculate_kpis", "get_regional_summary", "get_monthly_trends", "get_pathway_progress", "prepare_sankey_data"}
  /\ sankey_fig' = create_sankey(filtered_df, flow_cols[1], flow_cols[2], flow_cols[3])
  /\ pc' = pc \cup {"create_sankey"}
  /\ UNCHANGED <<source, value_col_arg, flow, widget, earlier_narrowed, cache, df, filters, filtered_df, kpis,
                 sankey_data, regional_summary, monthly_data, pathway_progress, err>>

CallCreateSimpleSankey ==
  /\ pc = {"calculate_kpis", "get_regional_summary", "get_monthly_trends", "get_pathway_progress", "prepare_sankey_data", "create_sankey"}
  /\ simple_fig' = create_simple_sankey(filtered_df, flow_cols[1], flow_cols[2])
  /\ pc' = pc \cup {"create_simple_sankey"}
  /\ UNCHANGED <<source, value_col_arg, flow_cols, widget, earlier_narrowed, cache, df,
                 filters, filtered_df, kpis, reports, err>>

NextReport ==
  \/ CallCalculateKpis
  \/ CallGetRegionalSummary
  \/ CallGetMonthlyTrends
  \/ CallGetPathwayProgress
  \/ CallPrepareSankeyData
  \/ CallCreateSankey
  \/ CallCreateSimpleSankey

SpecReport == InitReport /\ [][NextReport]_vars

\* --------------------------------------- the progress widget, called alone
MaxCurrent == 9

MaxTarget == 7

InitWidget ==
  /\ source = Unbound
  /\ value_col_arg = PyNone
  /\ flow_cols = DefaultColumns
  /\ simple_fig = Unbound
  /\ current \in 0..MaxCurrent
  /\ target \in 0..MaxTarget
  /\ percentage = Unbound
  /\ earlier_narrowed = FALSE
  /\ cache = EmptyCache
  /\ df = Unbound
  /\ filters = Unbound
  /\ filtered_df = Unbound
  /\ kpis = Unbound
  /\ sankey_fig = Unbound
  /\ sankey_data = Unbound
  /\ regional_summary = Unbound
  /\ monthly_data = Unbound
  /\ pathway_progress = Unbound
  /\ err = "none"
  /\ pc = "call"

RenderProgressIndicator ==
  /\ pc = "call"
  /\ percentage' = render_progress_indicator(current, target)
  /\ pc' = "returned"
  /\ UNCHANGED <<source, value_col_arg, flow, current, target, earlier_narrowed, cache, df,
                 filters, filtered_df, kpis, reports, err>>

NextWidget == RenderProgressIndicator

SpecWidget == InitWidget /\ [][NextWidget]_vars

\* ------------------------------------------------ the loader, called alone
\* The table without the column.
drop(table, col) ==
  [columns |-> table.columns \ {col},
   rows |-> [i \in 1..Len(table.rows) |->
               [c \in (DOMAIN table.rows[i]) \ {col} |-> table.rows[i][c]]]]

\* The tables a caller loads: a source table, whole or lacking one column of
\* the schema.
LoadSources == Sources \cup {drop(t, c) : t \in Sources, c \in SchemaColumns}

InitLoad ==
  /\ source \in LoadSources
  /\ value_col_arg = PyNone
  /\ flow_cols = DefaultColumns
  /\ simple_fig = Unbound
  /\ current = 0
  /\ target = 0
  /\ percentage = Unbound
  /\ earlier_narrowed = FALSE
  /\ cache = EmptyCache
  /\ df = Unbound
  /\ filters = Unbound
  /\ filtered_df = Unbound
  /\ kpis = Unbound
  /\ sankey_fig = Unbound
  /\ sankey_data = Unbound
  /\ regional_summary = Unbound
  /\ monthly_data = Unbound
  /\ pathway_progress = Unbound
  /\ err = "none"
  /\ pc = "call"

CallLoadAndProcessData ==
  /\ pc = "call"
  /\ IF load_and_process_data_raises(source) = "none"
     THEN /\ df' = load_and_process_data(source)
          /\ pc' = "returned"
          /\ UNCHANGED err
     ELSE /\ err' = load_and_process_data_raises(source)
          /\ pc' = "raised"
          /\ UNCHANGED df
  /\ UNCHANGED <<source, value_col_arg, flow, widget, earlier_narrowed, cache, filters,
                 filtered_df, kpis, reports>>

NextLoad == CallLoadAndProcessData

SpecLoad == InitLoad /\ [][NextLoad]_vars

\* ------------------------------------------------ properties: the filter
CalendarDate(r) == r.registration_date.ts \div 100

CategoricalKeys == Range(categorical_filters)

\* The categorical keys of a selection that ask for a value.
Active(sel) == {c \in CategoricalKeys \cap DOMAIN sel : sel[c] # "All"}

HasDates(sel) == {"date_start", "date_end"} \subseteq DOMAIN sel

HasSizes(sel) == "household_size_range" \in DOMAIN sel

\* The date keys are absent, or span the dates of the record set.
DatesNoOp(sel, frame) ==
  \/ {"date_start", "date_end"} \cap DOMAIN sel = {}
  \/ /\ HasDates(sel)
     /\ frame.rows # <<>>
     /\ sel["date_start"] = MinOf({CalendarDate(r) : r \in Range(frame.rows)})
     /\ sel["date_end"] = MaxOf({CalendarDate(r) : r \in Range(frame.rows)})

\* The size range is absent, or spans the household sizes of the record set.
SizesNoOp(sel, frame) ==
  \/ ~HasSizes(sel)
  \/ /\ frame.rows # <<>>
     /\ sel["household_size_range"][1] = MinOf({r.household_size : r \in Range(frame.rows)})
     /\ sel["household_size_range"][2] = MaxOf({r.household_size : r \in Range(frame.rows)})

IsNoOp(sel, frame) == Active(sel) = {} /\ DatesNoOp(sel, frame) /\ SizesNoOp(sel, frame)

\* C1: a no-op selection ('All' or absent categorical keys, date bounds and
\* size range spanning the record set or absent) returns the record set
\* itself: the same rows in the same order, the same columns.
C1_Identity ==
  (pc = "returned" /\ IsNoOp(filters, df)) => filtered_df = df

C1_Witness ==
  /\ pc = "returned"
  /\ IsNoOp(filters, df)
  /\ HasDates(filters) /\ HasSizes(filters)
  /\ "region" \in DOMAIN filters
  /\ Len(df.rows) = MaxRecords
  /\ filtered_df = df

\* The selection that keeps only the categorical constraint on field f.
OnlyField(sel, f) ==
  [k \in DOMAIN sel |-> IF k \in CategoricalKeys /\ k # f THEN "All" ELSE sel[k]]

\* The selection that drops the categorical constraint on field f.
WithoutField(sel, f) ==
  [k \in DOMAIN sel |-> IF k = f THEN "All" ELSE sel[k]]

\* C2: filters combine with AND: when the selection constrains several
\* categorical fields, the records it returns are exactly those common to the
\* result of the selection that constrains field f alone and the result of the
\* selection that constrains the other fields.
C2_Conjunction ==
  (pc = "returned" /\ Cardinality(Active(filters)) >= 2) =>
    \A f \in Active(filters) :
      Range(filtered_df.rows) =
        Range(apply_filters(df, OnlyField(filters, f)).rows)
          \cap Range(apply_filters(df, WithoutField(filters, f)).rows)

C2_Witness ==
  /\ pc = "returned"
  /\ Active(filters) = {"region", "gender_hoh"}
  /\ filtered_df.rows # <<>>
  /\ \E f \in Active(filters) :
       /\ Len(apply_filters(df, OnlyField(filters, f)).rows) > Len(filtered_df.rows)
       /\ Len(apply_filters(df, WithoutField(filters, f)).rows) > Len(filtered_df.rows)

\* C3: one categorical field F set to a value v, everything else a no-op:
\* the result is exactly the rows of the record set whose F is v, in order.
C3_ExactMatch ==
  \A F \in CategoricalKeys :
    (/\ pc = "returned"
     /\ Active(filters) = {F}
     /\ DatesNoOp(filters, df)
     /\ SizesNoOp(filters, df)) =>
      /\ filtered_df.rows = SelectSeq(df.rows, LAMBDA r : r[F] = filters[F])
      /\ filtered_df.columns = df.columns

C3_Witness ==
  /\ pc = "returned"
  /\ Active(filters) = {"region"}
  /\ filters["region"] = "North"
  /\ "district" \in DOMAIN filters /\ filters["district"] = "All"
  /\ DatesNoOp(filters, df) /\ SizesNoOp(filters, df)
  /\ Len(filtered_df.rows) = 2
  /\ Len(df.rows) = 3

RECURSIVE IsSubsequence(_, _)
IsSubsequence(a, b) ==
  IF a = <<>> THEN TRUE
  ELSE IF b = <<>> THEN FALSE
  ELSE IF a[1] = b[1] THEN IsSubsequence(Tail(a), Tail(b))
  ELSE IsSubsequence(a, Tail(b))

\* C4: for every selection the result is a subsequence of the record set:
\* only rows of the record set, none repeated, relative order kept.
C4_Stable ==
  (pc = "returned") => IsSubsequence(filtered_df.rows, df.rows)

C4_Witness ==
  /\ pc = "returned"
  /\ Len(df.rows) = 3
  /\ filtered_df.rows = <<df.rows[1], df.rows[3]>>

InDateRange(r, sel) ==
  sel["date_start"] <= CalendarDate(r) /\ CalendarDate(r) <= sel["date_end"]

InSizeRange(r, sel) ==
  /\ sel["household_size_range"][1] <= r.household_size
  /\ r.household_size <= sel["household_size_range"][2]

\* C5: the range filters are inclusive at both ends: with every categorical
\* filter a no-op, a selection that carries both date bounds and a size range
\* keeps exactly the rows with date_start <= calendar date <= date_end and
\* min <= household_size <= max; one that carries only one of the two ranges
\* keeps exactly the rows inside that range.
C5_InclusiveRanges ==
  (pc = "returned" /\ Active(filters) = {}) =>
    filtered_df.rows =
      SelectSeq(df.rows, LAMBDA r :
                  /\ HasDates(filters) => InDateRange(r, filters)
                  /\ HasSizes(filters) => InSizeRange(r, filters))

\* A row on the last day of the date range, after midnight, and a row whose
\* size is the lower end of the size range are both kept.
C5_Witness ==
  /\ pc = "returned"
  /\ Active(filters) = {}
  /\ HasDates(filters) /\ HasSizes(filters)
  /\ \E r \in Range(filtered_df.rows) :
       /\ CalendarDate(r) = filters["date_end"]
       /\ r.registration_date.ts % 100 > 0
  /\ \E r \in Range(filtered_df.rows) :
       r.household_size = filters["household_size_range"][1]
  /\ Len(filtered_df.rows) < Len(df.rows)

\* No row of the record set satisfies every constraint of the selection.
MatchesNone(sel, frame) ==
  \A r \in Range(frame.rows) :
    \/ \E c \in Active(sel) : r[c] # sel[c]
    \/ HasDates(sel) /\ ~InDateRange(r, sel)
    \/ HasSizes(sel) /\ ~InSizeRange(r, sel)

\* C6: a selection that matches no record, in particular a district that is
\* not in the selected region, yields the empty record set (with the columns
\* of the record set) and no error.
C6_EmptyNotError ==
  (pc = "returned" /\ MatchesNone(filters, df)) =>
    /\ filtered_df.rows = <<>>
    /\ filtered_df.columns = df.columns
    /\ err = "none"

\* Region North and district Gamma are both present in the record set, but
\* no record has both.
C6_Witness ==
  /\ pc = "returned"
  /\ Active(filters) = {"region", "district"}
  /\ \E r \in Range(df.rows) : r.region = filters["region"]
  /\ \E r \in Range(df.rows) : r.district = filters["district"]
  /\ MatchesNone(filters, df)
  /\ filtered_df.rows = <<>>
  /\ err = "none"

\* --------------------------------------- properties: the run of main()
\* The positions of main() at which df is bound and a component is called.
Calling == {"sidebar", "filter", "kpis", "sankey", "regional", "monthly", "pathway"}

\* The positions at which filtered_df is handed to an aggregator.
Aggregating == {"kpis", "sankey", "regional", "monthly", "pathway"}

\* The positions at which kpis is bound.
HasKpis == {"sankey", "regional", "monthly", "pathway", "done"}

\* C7: no component changes the record set it is given: every step of
\* render_sidebar_filters, apply_filters, calculate_kpis, create_sankey,
\* get_regional_summary, get_monthly_trends and get_pathway_progress leaves
\* the loaded record set with the same rows, columns and values, and every
\* aggregator leaves the filtered record set so.
C7_Immutable ==
  [][/\ pc \in Calling => df' = df
     /\ pc \in Aggregating => filtered_df' = filtered_df]_vars

\* A whole run over a full record set: the record set is still what was
\* loaded, and the monthly trend (which adds a column to its working frame)
\* has been computed from a filtered set that still has the loaded columns.
C7_Witness ==
  /\ pc = "done"
  /\ Len(df.rows) = MaxRecords
  /\ df = cache.value
  /\ Len(monthly_data) >= 2
  /\ filtered_df.columns = df.columns
  /\ HasDates(filters)

\* The KPI keys that report a count for a value of the field.
ReportedCounts ==
  [displacement_status |-> {"idp_count", "returnee_count", "host_community_count"},
   solutions_pathway |-> {"return_pathway", "local_integration_pathway",
                          "relocation_pathway"},
   pathway_stage |-> {"assessment_stage", "planning_stage", "implementation_stage",
                      "achieved_stage"},
   shelter_status |-> {"emergency_shelter", "transitional_shelter",
                       "permanent_shelter"},
   documentation_status |-> {"complete_documentation"},
   gender_hoh |-> {"female_hoh_count"},
   livelihood_support |-> {"livelihood_support_count"}]

RECURSIVE SumKeys(_, _)
SumKeys(dict, keys) ==
  IF keys = {} THEN 0
  ELSE LET k == CHOOSE x \in keys : TRUE
       IN dict[k] + SumKeys(dict, keys \ {k})

\* C8: for every categorical field, the per-category counts calculate_kpis
\* reports for the field sum to the number of records.
C8_PartitionComplete ==
  pc \in HasKpis =>
    \A F \in DOMAIN ReportedCounts :
      SumKeys(kpis, ReportedCounts[F]) = Len(filtered_df.rows)

\* The number of records whose field is the value.
Matching(frame, col, v) ==
  Cardinality({i \in 1..Len(frame.rows) : frame.rows[i][col] = v})

\* The fraction <<num, den>> is the number count / total.
IsRatio(fraction, count, total) ==
  fraction[2] > 0 /\ fraction[1] * total = count * fraction[2]

InUnitInterval(fraction) ==
  fraction[2] > 0 /\ 0 <= fraction[1] /\ fraction[1] <= fraction[2]

RateKeys ==
  {"achievement_rate", "female_hoh_percentage", "livelihood_support_percentage",
   "documentation_rate"}

\* C9: for a non-empty record set every rate indicator is the matching count
\* divided by the number of records, and for every record set it is in [0,1].
C9_Rates ==
  pc \in HasKpis =>
    /\ \A k \in RateKeys : InUnitInterval(kpis[k])
    /\ Len(filtered_df.rows) > 0 =>
         LET n == Len(filtered_df.rows)
         IN /\ IsRatio(kpis.achievement_rate,
                       Matching(filtered_df, "pathway_stage", "Achieved"), n)
            /\ IsRatio(kpis.female_hoh_percentage,
                       Matching(filtered_df, "gender_hoh", "Female"), n)
            /\ IsRatio(kpis.livelihood_support_percentage,
                       Matching(filtered_df, "livelihood_support", "Yes"), n)
            /\ IsRatio(kpis.documentation_rate,
                       Matching(filtered_df, "documentation_status", "Complete"), n)

\* Two of three records are Achieved: the rate is 2/3.
C9_Witness ==
  /\ pc \in HasKpis
  /\ Len(filtered_df.rows) = 3
  /\ Matching(filtered_df, "pathway_stage", "Achieved") = 2
  /\ kpis.achievement_rate = <<2, 3>>
  /\ kpis.documentation_rate[1] > 0

IsZero(fraction) == fraction[2] > 0 /\ fraction[1] = 0

\* C10: for the empty record set calculate_kpis returns total_beneficiaries 0
\* and every rate indicator 0, and the run goes on without an error.
C10_ZeroTotal ==
  (pc \in HasKpis /\ filtered_df.rows = <<>>) =>
    /\ kpis.total_beneficiaries = 0
    /\ \A k \in RateKeys : IsZero(kpis[k])
    /\ err = "none"

\* A selection that matches none of the loaded records.
C10_Witness ==
  /\ pc = "done"
  /\ df.rows # <<>>
  /\ filtered_df.rows = <<>>
  /\ kpis.total_beneficiaries = 0
  /\ IsZero(kpis.achievement_rate)
  /\ err = "none"

\* ------------------------------------- properties: the aggregators alone
\* C11: for the empty record set calculate_kpis returns avg_household_size 0,
\* a number, not nan.
C11_AvgHouseholdSizeZero ==
  ("calculate_kpis" \in pc /\ filtered_df.rows = <<>>) =>
    IsZero(kpis.avg_household_size)

\* C12: on the empty record set every aggregator returns its empty result
\* and raises no error: the three reports have no row, the flow aggregator
\* has no node label and no edge.
C12_TotalOnEmpty ==
  filtered_df.rows = <<>> =>
    /\ "get_regional_summary" \in pc => regional_summary = <<>>
    /\ "get_monthly_trends" \in pc => monthly_data = <<>>
    /\ "get_pathway_progress" \in pc => pathway_progress.rows = <<>>
    /\ "prepare_sankey_data" \in pc => sankey_data = <<<<>>, <<>>, <<>>, <<>>>>
    /\ "create_sankey" \in pc =>
         /\ sankey_fig.labels = <<>>
         /\ sankey_fig.sources = <<>>
         /\ sankey_fig.targets = <<>>
         /\ sankey_fig.values = <<>>
    /\ err = "none"

\* Every aggregator has returned for a record set that a filter left empty.
C12_Witness ==
  /\ df.rows # <<>>
  /\ filtered_df.rows = <<>>
  /\ pc = {"calculate_kpis", "get_regional_summary", "get_monthly_trends",
           "get_pathway_progress", "prepare_sankey_data", "create_sankey"}
  /\ regional_summary = <<>>
  /\ monthly_data = <<>>
  /\ pathway_progress.rows = <<>>
  /\ sankey_data[1] = <<>>
  /\ err = "none"

\* C13: the rows of the regional summary are in descending order of
\* beneficiaries; one North record and two South records give the South row
\* before the North row.
C13_DescendingBeneficiaries ==
  "get_regional_summary" \in pc =>
    /\ \A i \in 1..(Len(regional_summary) - 1) :
         regional_summary[i].beneficiaries >= regional_summary[i + 1].beneficiaries
    /\ (/\ Matching(filtered_df, "region", "North") = 1
        /\ Matching(filtered_df, "region", "South") = 2
        /\ Len(filtered_df.rows) = 3) =>
         /\ Len(regional_summary) = 2
         /\ regional_summary[1].region = "South"
         /\ regional_summary[2].region = "North"

\* One North record and two South records, all Achieved.
C13_Witness ==
  /\ "get_regional_summary" \in pc
  /\ Len(filtered_df.rows) = 3
  /\ \A r \in Range(filtered_df.rows) : r.pathway_stage = "Achieved"
  /\ Len(regional_summary) = 2
  /\ regional_summary[1].region = "South"
  /\ regional_summary[1].beneficiaries = 2
  /\ regional_summary[1].achievement_rate = <<1000, 10>>
  /\ regional_summary[2].region = "North"
  /\ regional_summary[2].beneficiaries = 1
  /\ regional_summary[2].achievement_rate = <<1000, 10>>

RECURSIVE SumField(_, _)
\* The sum of a field over the rows of a table.
SumField(rows, field) ==
  IF rows = <<>> THEN 0 ELSE rows[1][field] + SumField(Tail(rows), field)

\* C14: the regional summary has exactly one row for each region value that
\* occurs in the record set and no other row; so every row has at least one
\* beneficiary and the beneficiaries of the rows sum to the number of records.
C14_OneRowPerRegion ==
  "get_regional_summary" \in pc =>
    /\ {regional_summary[i].region : i \in 1..Len(regional_summary)}
         = Values(filtered_df, "region")
    /\ Len(regional_summary) = Cardinality(Values(filtered_df, "region"))
    /\ \A i \in 1..Len(regional_summary) : regional_summary[i].beneficiaries >= 1
    /\ SumField(regional_summary, "beneficiaries") = Len(filtered_df.rows)

\* The loaded record set has two regions, the filtered one has records of
\* one of them only: the summary has that one row.
C14_Witness ==
  /\ "get_regional_summary" \in pc
  /\ Values(df, "region") = {"North", "South"}
  /\ Len(filtered_df.rows) = 2
  /\ Len(regional_summary) = 1
  /\ regional_summary[1].region = "North"
  /\ regional_summary[1].beneficiaries = 2

\* The records of the region.
OfRegion(frame, region) == SelectSeq(frame.rows, LAMBDA r : r.region = region)

\* The float is num / den * 100 rounded to one decimal: a number of tenths
\* no further than half a tenth from the exact percentage.
IsPercent1(float, num, den) ==
  /\ float[2] = 10
  /\ 2 * (float[1] * den - num * 1000) <= den
  /\ 2 * (num * 1000 - float[1] * den) <= den

\* The float is in [0, 100].
InPercentRange(float) ==
  float[2] > 0 /\ 0 <= float[1] /\ float[1] <= 100 * float[2]

\* C15: every row of the regional summary counts the records of its region:
\* beneficiaries their number, individuals the sum of their household_size,
\* female_hoh, achieved and livelihood_support those with gender_hoh Female,
\* pathway_stage Achieved and livelihood_support Yes; achievement_rate and
\* female_hoh_rate are achieved and female_hoh over beneficiaries, times 100,
\* rounded to one decimal, each in [0, 100].
C15_RegionalRow ==
  "get_regional_summary" \in pc =>
    \A i \in 1..Len(regional_summary) :
      LET row == regional_summary[i]
          g == OfRegion(filtered_df, row.region)
      IN /\ row.beneficiaries = Len(g)
         /\ row.individuals = SumField(g, "household_size")
         /\ row.female_hoh = Len(SelectSeq(g, LAMBDA r : r.gender_hoh = "Female"))
         /\ row.achieved = Len(SelectSeq(g, LAMBDA r : r.pathway_stage = "Achieved"))
         /\ row.livelihood_support =
              Len(SelectSeq(g, LAMBDA r : r.livelihood_support = "Yes"))
         /\ IsPercent1(row.achievement_rate, row.achieved, row.beneficiaries)
         /\ IsPercent1(row.female_hoh_rate, row.female_hoh, row.beneficiaries)
         /\ InPercentRange(row.achievement_rate)
         /\ InPercentRange(row.female_hoh_rate)

\* Three records of one region, one Achieved and two with a female head:
\* the rates are 33.3 and 66.7.
C15_Witness ==
  /\ "get_regional_summary" \in pc
  /\ \E i \in 1..Len(regional_summary) :
       /\ regional_summary[i].beneficiaries = 3
       /\ regional_summary[i].individuals = 4
       /\ regional_summary[i].achieved = 1
       /\ regional_summary[i].female_hoh = 2
       /\ regional_summary[i].livelihood_support = 2
       /\ regional_summary[i].achievement_rate = <<333, 10>>
       /\ regional_summary[i].female_hoh_rate = <<667, 10>>

\* C16: the cumulative column of the monthly trend is the running sum of the
\* value column: cumulative[i] is the sum of value[0..i], and the last
\* cumulative is the total of the values, which is the number of records when
\* no value column is given (and the sum of the value column when one is).
C16_RunningSum ==
  "get_monthly_trends" \in pc =>
    /\ \A i \in 1..Len(monthly_data) :
         monthly_data[i].cumulative = SumField(SubSeq(monthly_data, 1, i), "value")
    /\ monthly_data # <<>> =>
         monthly_data[Len(monthly_data)].cumulative =
           IF value_col_arg = PyNone THEN Len(filtered_df.rows)
           ELSE SumField(filtered_df.rows, value_col_arg)

\* Three records, two of the first month and one of the second, counted.
C16_Witness ==
  /\ "get_monthly_trends" \in pc
  /\ value_col_arg = PyNone
  /\ Len(monthly_data) = 2
  /\ monthly_data[1].value = 2 /\ monthly_data[1].cumulative = 2
  /\ monthly_data[2].value = 1 /\ monthly_data[2].cumulative = 3

\* The calendar month of the registration of a record, as the text 'YYYY-MM'.
MonthOf(r) ==
  [kind |-> "str", year |-> CalendarDate(r) \div 10000,
   month |-> (CalendarDate(r) \div 100) % 100]

\* Month a is earlier than month b.
Earlier(a, b) == a.year * 12 + a.month < b.year * 12 + b.month

\* C17: the monthly trend has one row for each calendar month in which a
\* record of the record set is registered, none for another month, none
\* twice, and the rows are in strictly increasing order of month.
C17_OneRowPerMonth ==
  "get_monthly_trends" \in pc =>
    /\ {monthly_data[i].month : i \in 1..Len(monthly_data)}
         = {MonthOf(r) : r \in Range(filtered_df.rows)}
    /\ \A i \in 1..(Len(monthly_data) - 1) :
         Earlier(monthly_data[i].month, monthly_data[i + 1].month)

\* Records on two days of one month and on a day of the next: two rows.
C17_Witness ==
  /\ "get_monthly_trends" \in pc
  /\ Cardinality({CalendarDate(r) : r \in Range(filtered_df.rows)}) = 2
  /\ Cardinality({r.registration_date.ts : r \in Range(filtered_df.rows)}) = 3
  /\ Len(monthly_data) = 2
  /\ monthly_data[1].month = [kind |-> "str", year |-> 24, month |-> 1]
  /\ monthly_data[2].month = [kind |-> "str", year |-> 24, month |-> 2]

\* The stage columns of the progress matrix, as the claims name them.
StageColumns == <<"Assessment", "Planning", "Implementation", "Achieved">>

\* The records with the pathway and the stage.
OfPair(frame, pathway, stage) ==
  SelectSeq(frame.rows, LAMBDA r : r.solutions_pathway = pathway /\ r.pathway_stage = stage)

\* C18: in every row of the progress matrix Total is the sum of the row's
\* Assessment, Planning, Implementation and Achieved counts.
C18_TotalIsRowSum ==
  "get_pathway_progress" \in pc =>
    \A i \in 1..Len(pathway_progress.rows) :
      LET row == pathway_progress.rows[i]
      IN row["Total"] = row["Assessment"] + row["Planning"]
                        + row["Implementation"] + row["Achieved"]

\* A pathway with a record in one of the four stages and a record in a stage
\* outside them: Total is 1.
C18_Witness ==
  /\ "get_pathway_progress" \in pc
  /\ \E i \in 1..Len(pathway_progress.rows) :
       LET row == pathway_progress.rows[i]
       IN /\ row["Total"] = 1
          /\ row["Planning"] = 1
          /\ Matching(filtered_df, "solutions_pathway", row["solutions_pathway"]) = 2

\* C19: in every row of the progress matrix Achievement Rate is Achieved over
\* Total, times 100, rounded to one decimal when Total > 0, and 0 when Total
\* is 0.
C19_AchievementRate ==
  "get_pathway_progress" \in pc =>
    \A i \in 1..Len(pathway_progress.rows) :
      LET row == pathway_progress.rows[i]
      IN /\ row["Total"] > 0 =>
              IsPercent1(row["Achievement Rate"], row["Achieved"], row["Total"])
         /\ row["Total"] = 0 => IsZero(row["Achievement Rate"])

\* C20: for a non-empty record set the progress matrix has one row for each
\* pathway value present, its first four columns are Assessment, Planning,
\* Implementation, Achieved in this order, and each of them holds the number
\* of records with that pathway and that stage, 0 when there is none.
C20_ZeroFilledStages ==
  ("get_pathway_progress" \in pc /\ filtered_df.rows # <<>>) =>
    /\ {pathway_progress.rows[i]["solutions_pathway"] : i \in 1..Len(pathway_progress.rows)}
         = Values(filtered_df, "solutions_pathway")
    /\ Len(pathway_progress.rows) = Cardinality(Values(filtered_df, "solutions_pathway"))
    /\ SubSeq(pathway_progress.columns, 1, 4) = StageColumns
    /\ \A i \in 1..Len(pathway_progress.rows) : \A k \in 1..4 :
         LET row == pathway_progress.rows[i]
         IN row[StageColumns[k]] =
              Len(OfPair(filtered_df, row["solutions_pathway"], StageColumns[k]))

\* Two pathways; one has two Achieved records and none in the other stages.
C20_Witness ==
  /\ "get_pathway_progress" \in pc
  /\ Len(pathway_progress.rows) = 2
  /\ \E i \in 1..2 :
       LET row == pathway_progress.rows[i]
       IN /\ row["Achieved"] = 2
          /\ row["Assessment"] = 0 /\ row["Planning"] = 0 /\ row["Implementation"] = 0

\* ---------------------------------------- properties: the flow aggregator
\* The number of records that carry the value in the column.
Carrying(frame, col, v) == Len(SelectSeq(frame.rows, LAMBDA r : r[col] = v))

\* The number of records with the pair of values in the two columns.
PairCount(frame, a, b, x, y) ==
  Len(SelectSeq(frame.rows, LAMBDA r : r[a] = x /\ r[b] = y))

\* The pairs of values that occur in a record.
Pairs(frame, a, b) == {<<frame.rows[i][a], frame.rows[i][b]>> : i \in 1..Len(frame.rows)}

\* The number of nodes of a column: its distinct values.
Distinct(frame, col) == Cardinality(Values(frame, col))

\* The 0-based indexes of the block of the k-th column in the node list.
Block(frame, cols, k) ==
  LET before == IF k = 1 THEN 0
                ELSE IF k = 2 THEN Distinct(frame, cols[1])
                ELSE Distinct(frame, cols[1]) + Distinct(frame, cols[2])
  IN before .. (before + Distinct(frame, cols[k]) - 1)

\* The sum of the weights of the edges whose source is node n.
Outgoing(sources, values, n) ==
  LET f[e \in 0..Len(sources)] ==
        IF e = 0 THEN 0
        ELSE f[e - 1] + (IF sources[e] = n THEN values[e] ELSE 0)
  IN f[Len(sources)]

\* Every node of a non-terminal column sends out as much weight as there are
\* records with its value in that column.
Conserved(frame, cols, labels, sources, values) ==
  \A k \in 1..(Len(cols) - 1) : \A n \in Block(frame, cols, k) :
    Outgoing(sources, values, n) = Carrying(frame, cols[k], labels[n + 1])

\* C21: flow conservation: for every record set, every choice of the two or
\* three columns and every node of a non-terminal column, the weights of the
\* edges whose source is that node sum to the number of records that carry
\* the node's value in that column.
C21_FlowConservation ==
  /\ "prepare_sankey_data" \in pc =>
       Conserved(filtered_df, flow_cols, sankey_data[1], sankey_data[2], sankey_data[4])
  /\ "create_sankey" \in pc =>
       Conserved(filtered_df, flow_cols, sankey_fig.labels, sankey_fig.sources,
                 sankey_fig.values)
  /\ "create_simple_sankey" \in pc =>
       Conserved(filtered_df, SubSeq(flow_cols, 1, 2), simple_fig.labels,
                 simple_fig.sources, simple_fig.values)

\* Every value of every column has a node in the column's block, and every
\* edge runs from the block of a column to the block of the next column,
\* between the values of a record.
PerColumn(frame, cols, labels, sources, targets) ==
  /\ \A k \in 1..Len(cols) : \A v \in Values(frame, cols[k]) :
       \E n \in Block(frame, cols, k) : labels[n + 1] = v
  /\ \A e \in 1..Len(sources) : \E k \in 1..(Len(cols) - 1) :
       /\ sources[e] \in Block(frame, cols, k)
       /\ targets[e] \in Block(frame, cols, k + 1)
       /\ <<labels[sources[e] + 1], labels[targets[e] + 1]>>
            \in Pairs(frame, cols[k], cols[k + 1])

\* C22: nodes are per column: a name that occurs in two of the columns has a
\* node in each column's block, and every edge of a column pair has its
\* source index in the block of the pair's first column and its target index
\* in the block of the pair's second column.
C22_NodesPerColumn ==
  /\ "prepare_sankey_data" \in pc =>
       PerColumn(filtered_df, flow_cols, sankey_data[1], sankey_data[2], sankey_data[3])
  /\ "create_sankey" \in pc =>
       PerColumn(filtered_df, flow_cols, sankey_fig.labels, sankey_fig.sources,
                 sankey_fig.targets)
  /\ "create_simple_sankey" \in pc =>
       PerColumn(filtered_df, SubSeq(flow_cols, 1, 2), simple_fig.labels,
                 simple_fig.sources, simple_fig.targets)

\* The edges lo..hi are the edges of the column pair (a, b): each has a
\* positive weight, the number of records with its pair of values, and each
\* pair of values that occurs in a record has exactly one edge.
EdgesOfPair(frame, a, b, labels, sources, targets, values, lo, hi) ==
  /\ \A e \in lo..hi :
       /\ values[e] \in Nat \ {0}
       /\ values[e] = PairCount(frame, a, b, labels[sources[e] + 1],
                                labels[targets[e] + 1])
  /\ \A p \in Pairs(frame, a, b) :
       Cardinality({e \in lo..hi : /\ labels[sources[e] + 1] = p[1]
                                   /\ labels[targets[e] + 1] = p[2]}) = 1

\* C23: every edge has a positive integer weight, the number of records with
\* its pair of values in the two columns; a pair that occurs in no record
\* has no edge and each pair that occurs has exactly one edge.
C23_OneEdgePerPair ==
  /\ "prepare_sankey_data" \in pc =>
       \E m \in 0..Len(sankey_data[4]) :
         /\ EdgesOfPair(filtered_df, flow_cols[1], flow_cols[2], sankey_data[1],
                        sankey_data[2], sankey_data[3], sankey_data[4], 1, m)
         /\ EdgesOfPair(filtered_df, flow_cols[2], flow_cols[3], sankey_data[1],
                        sankey_data[2], sankey_data[3], sankey_data[4], m + 1,
                        Len(sankey_data[4]))
  /\ "create_simple_sankey" \in pc =>
       EdgesOfPair(filtered_df, flow_cols[1], flow_cols[2], simple_fig.labels,
                   simple_fig.sources, simple_fig.targets, simple_fig.values, 1,
                   Len(simple_fig.values))

\* ---------------------------------------- properties: the progress widget
\* C24: for every pair with current >= 0 the percentage rendered is
\* min(current / target, 1.0) * 100, a number from 0 to 100; with target = 0
\* it is 0 and there is no division by zero.
C24_ProgressBounded ==
  pc = "returned" =>
    /\ percentage[2] > 0
    /\ 0 <= percentage[1] /\ percentage[1] <= 100 * percentage[2]
    /\ target = 0 => percentage[1] = 0
    /\ (target > 0 /\ current <= target) =>
         percentage[1] * target = 100 * current * percentage[2]
    /\ (target > 0 /\ current > target) => percentage[1] = 100 * percentage[2]

\* The current value exceeds a positive target and 100 is rendered.
C24_Witness ==
  /\ pc = "returned"
  /\ target > 0 /\ current > target
  /\ percentage = <<100, 1>>

\* ------------------------------------------------ properties: the loader
\* C25: loading a source table that lacks a column of the record schema
\* aborts with a SchemaError and produces no record set.
C25_SchemaError ==
  (pc \in {"returned", "raised"} /\ ~(SchemaColumns \subseteq source.columns)) =>
    (pc = "raised" /\ err = "SchemaError")

\* ------------------------------------------- properties: unknown categories
\* The enumerated values of the columns the progress matrix and the default
\* flow group by.
Enumerated ==
  [displacement_status |-> {"IDP", "Returnee", "Host Community"},
   solutions_pathway |-> {"Return", "Local Integration", "Relocation"},
   pathway_stage |-> {"Assessment", "Planning", "Implementation", "Achieved"}]

\* The group a value is counted under.
Bucketed(col, v) == IF v \in Enumerated[col] THEN v ELSE "Other/Unknown"

\* C26: a record with a categorical value outside the enumerated set is kept
\* by the loader, and where records are grouped it is counted under
\* 'Other/Unknown': the progress matrix has the row and the column of every
\* record's bucketed pathway and stage, and the node labels of the flow are
\* the bucketed values of the records.
C26_UnknownBucket ==
  /\ Len(df.rows) = Len(source.rows)
  /\ "get_pathway_progress" \in pc =>
       \A i \in 1..Len(filtered_df.rows) :
         /\ \E j \in 1..Len(pathway_progress.rows) :
              pathway_progress.rows[j]["solutions_pathway"]
                = Bucketed("solutions_pathway", filtered_df.rows[i].solutions_pathway)
         /\ Bucketed("pathway_stage", filtered_df.rows[i].pathway_stage)
              \in Range(pathway_progress.columns)
  /\ ("prepare_sankey_data" \in pc /\ flow_cols = DefaultColumns) =>
       Range(sankey_data[1])
         = {Bucketed(flow_cols[k], filtered_df.rows[i][flow_cols[k]]) :
              k \in 1..3, i \in 1..Len(filtered_df.rows)}

\* ------------------------------------- properties: the three-stage flow
\* The edges lo..hi as triples <<source label, target label, weight>>.
EdgeTriples(labels, sources, targets, values, lo, hi) ==
  [e \in 1..(hi - lo + 1) |->
     <<labels[sources[lo + e - 1] + 1], labels[targets[lo + e - 1] + 1],
       values[lo + e - 1]>>]

\* All edges of a two-stage flow, as triples.
TwoStage(fig) ==
  EdgeTriples(fig.labels, fig.sources, fig.targets, fig.values, 1, Len(fig.values))

\* The sum of the weights lo..hi.
Weight(values, lo, hi) ==
  LET f[e \in (lo - 1)..hi] == IF e = lo - 1 THEN 0 ELSE f[e - 1] + values[e]
  IN f[hi]

\* The three-stage edge list is the two-stage list of (source, middle)
\* followed by the two-stage list of (middle, target); no edge runs from the
\* source block to the target block; each group weighs the number of records.
Concatenated(frame, cols, labels, sources, targets, values) ==
  LET first == TwoStage(create_simple_sankey(frame, cols[1], cols[2]))
      second == TwoStage(create_simple_sankey(frame, cols[2], cols[3]))
      m == Len(first)
  IN /\ EdgeTriples(labels, sources, targets, values, 1, Len(values)) = first \o second
     /\ \A e \in 1..Len(values) :
          ~(sources[e] \in Block(frame, cols, 1) /\ targets[e] \in Block(frame, cols, 3))
     /\ Weight(values, 1, m) = Len(frame.rows)
     /\ Weight(values, m + 1, Len(values)) = Len(frame.rows)

\* C27: the three-stage flow is the concatenation of two independent
\* two-stage computations: all edges of (source, middle), then all edges of
\* (middle, target), each from grouping on that pair alone; no edge links a
\* source-column node directly to a target-column node, and the weights of
\* each of the two groups sum to the number of records.
C27_ThreeStageConcatenation ==
  /\ "prepare_sankey_data" \in pc =>
       Concatenated(filtered_df, flow_cols, sankey_data[1], sankey_data[2],
                    sankey_data[3], sankey_data[4])
  /\ "create_sankey" \in pc =>
       Concatenated(filtered_df, flow_cols, sankey_fig.labels, sankey_fig.sources,
                    sankey_fig.targets, sankey_fig.values)

\* ------------------------------------------ properties: the session
\* The record satisfies every constraint of the selection.
Satisfies(r, sel) ==
  /\ \A c \in Active(sel) : r[c] = sel[c]
  /\ HasDates(sel) => InDateRange(r, sel)
  /\ HasSizes(sel) => InSizeRange(r, sel)

\* The records of the loaded record set that the current selection asks for.
CurrentRows == SelectSeq(df.rows, LAMBDA r : Satisfies(r, filters))

\* The positions of main() at which filtered_df is bound.
Filtered == {"kpis", "sankey", "regional", "monthly", "pathway", "done"}

\* C28: in a session, after any sequence of selection changes, the loaded
\* record set of the current run is the full one, the filtered set (the map
\* input) is the records of it that satisfy the current selection, and the
\* KPIs, the flow data and the three grouped reports count exactly those
\* records: an earlier selection narrows nothing.
C28_Recomputed ==
  /\ pc \in Filtered =>
       /\ Len(df.rows) = Len(source.rows)
       /\ df = cache.value
       /\ filtered_df.rows = CurrentRows
  /\ pc \in HasKpis => kpis.total_beneficiaries = Len(CurrentRows)
  /\ pc \in {"regional", "monthly", "pathway", "done"} =>
       Weight(sankey_fig.values, 1, Len(sankey_fig.values)) = 2 * Len(CurrentRows)
  /\ pc \in {"monthly", "pathway", "done"} =>
       SumField(regional_summary, "beneficiaries") = Len(CurrentRows)
  /\ pc \in {"pathway", "done"} => SumField(monthly_data, "value") = Len(CurrentRows)
  /\ pc = "done" => SumField(pathway_progress.rows, "Total") = Len(CurrentRows)

\* A later run of a session in which an earlier run left records out: the
\* current selection keeps every record and every output counts them all.
C28_Witness ==
  /\ pc = "done"
  /\ earlier_narrowed
  /\ Len(source.rows) = MaxRecords
  /\ Len(filtered_df.rows) = MaxRecords
  /\ kpis.total_beneficiaries = MaxRecords

\* ----------------------------------- properties: two ways to one result
\* C29: the flag-based and the field-based counts agree: over all rows of
\* the regional summary, achieved, female_hoh, livelihood_support,
\* beneficiaries and individuals sum to calculate_kpis' solutions_achieved,
\* female_hoh_count, livelihood_support_count, total_beneficiaries and
\* total_individuals, and in every record each flag is the test of its field.
C29_FlagsAgreeWithFields ==
  /\ \A i \in 1..Len(filtered_df.rows) :
       LET r == filtered_df.rows[i]
       IN /\ r.is_achieved <=> r.pathway_stage = "Achieved"
          /\ r.is_female_hoh <=> r.gender_hoh = "Female"
          /\ r.has_livelihood_support <=> r.livelihood_support = "Yes"
  /\ {"calculate_kpis", "get_regional_summary"} \subseteq pc =>
       /\ SumField(regional_summary, "achieved") = kpis.solutions_achieved
       /\ SumField(regional_summary, "female_hoh") = kpis.female_hoh_count
       /\ SumField(regional_summary, "livelihood_support") = kpis.livelihood_support_count
       /\ SumField(regional_summary, "beneficiaries") = kpis.total_beneficiaries
       /\ SumField(regional_summary, "individuals") = kpis.total_individuals

\* Two regions, and records that are achieved, female-headed and supported.
C29_Witness ==
  /\ {"calculate_kpis", "get_regional_summary"} \subseteq pc
  /\ Len(regional_summary) = 2
  /\ kpis.total_beneficiaries = MaxRecords
  /\ kpis.solutions_achieved >= 1
  /\ kpis.female_hoh_count >= 1
  /\ kpis.livelihood_support_count >= 1
  /\ kpis.solutions_achieved < kpis.total_beneficiaries

\* The position of the first record with the value in the column.
FirstSeen(frame, col, v) ==
  MinOf({i \in 1..Len(frame.rows) : frame.rows[i][col] = v})

\* The block of the k-th column in the node list holds the distinct values of
\* the column, each once, in the order in which the records first show them.
FirstSeenOrder(frame, cols, labels, k) ==
  /\ {labels[n + 1] : n \in Block(frame, cols, k)} = Values(frame, cols[k])
  /\ \A n1 \in Block(frame, cols, k), n2 \in Block(frame, cols, k) :
       n1 < n2 => FirstSeen(frame, cols[k], labels[n1 + 1])
                    < FirstSeen(frame, cols[k], labels[n2 + 1])

\* C30: for every record set and every choice of the three columns,
\* prepare_sankey_data returns the node label list (the distinct values of
\* each column in first-seen order, the three lists concatenated) and the
\* source-index, target-index and weight lists, in the same order, that
\* create_sankey builds for its diagram.
C30_TwoImplementationsAgree ==
  {"prepare_sankey_data", "create_sankey"} \subseteq pc =>
    /\ sankey_data[1] = sankey_fig.labels
    /\ sankey_data[2] = sankey_fig.sources
    /\ sankey_data[3] = sankey_fig.targets
    /\ sankey_data[4] = sankey_fig.values
    /\ Len(sankey_data[1]) = Distinct(filtered_df, flow_cols[1])
                             + Distinct(filtered_df, flow_cols[2])
                             + Distinct(filtered_df, flow_cols[3])
    /\ \A k \in 1..3 : FirstSeenOrder(filtered_df, flow_cols, sankey_data[1], k)

\* A name occurs in two of the columns and there are edges of both pairs.
C30_Witness ==
  /\ {"prepare_sankey_data", "create_sankey"} \subseteq pc
  /\ flow_cols = <<"displacement_status", "region", "district">>
  /\ Cardinality(Range(sankey_data[1])) < Len(sankey_data[1])
  /\ Len(sankey_data[4]) >= 4
  /\ sankey_data[4] = sankey_fig.values

====
